---- MODULE Spec2Model ----
(***************************************************************************)
(* prmanager: the Minecraft listener that redirects clients to per-PR      *)
(* servers (listener.go), the Docker driver it uses (docker.go), the HTTP  *)
(* router that uploads and deletes PRs (router.go), and the process that   *)
(* wires them together (main.go).                                          *)
(*                                                                         *)
(* Strings of the program (server addresses, PR numbers) are sequences of  *)
(* one-character strings, so that splitting and matching are computed.     *)
(* Time is counted in hours.                                               *)
(***************************************************************************)
EXTENDS Integers, Sequences, FiniteSets, TLC

\* ------------------------------------------------------------------ bounds

\* The clock stops advancing at MaxTime.
MaxTime == 2
\* Number of sessions that can wait in the accept queue at once.
MaxPending == 2

\* ------------------------------------------------------- program constants

\* time.Hour, in hours.
Hour == 1
\* Port of the main server (df-mc.dev, 188.166.78.44).
MainPort == 19133
\* Port of the plots server (plots.df-mc.dev).
PlotsPort == 19134

\* ---------------------------------------------------------------- strings

DfMcDev == <<"d", "f", "-", "m", "c", ".", "d", "e", "v">>
MainIP == <<"1", "8", "8", ".", "1", "6", "6", ".", "7", "8", ".", "4", "4">>
PlotsHost == <<"p", "l", "o", "t", "s", ".">> \o DfMcDev
\* The literal part of the pattern ^(\d+)\.df-mc\.dev$.
PRSuffix == <<".">> \o DfMcDev
ClientPort == <<":", "1", "9", "1", "3", "2">>

Digits == {"0", "1", "2", "3", "4", "5", "6", "7", "8", "9"}

\* The PR numbers that have servers in the model.
PRs == {<<"1">>, <<"2">>}

\* Server addresses clients join with.
Addresses ==
    { DfMcDev,
      MainIP,
      PlotsHost \o ClientPort,
      <<"1">> \o PRSuffix,
      <<"1">> \o PRSuffix \o ClientPort,
      <<"2">> \o PRSuffix,
      <<"x">> \o PRSuffix,
      PRSuffix,
      <<"1">> \o PRSuffix \o <<".">> }

\* Host ports Docker can hand out for "-p 0:19132/udp".
Ports == {49153, 49154}

\* strings.Split(s, ":")[0]
SplitFirst(s) ==
    IF \E i \in 1..Len(s) : s[i] = ":"
    THEN LET i == CHOOSE k \in 1..Len(s) :
                    /\ s[k] = ":"
                    /\ \A j \in 1..(k - 1) : s[j] # ":"
         IN SubSeq(s, 1, i - 1)
    ELSE s

\* FindStringSubmatch with the pattern ^(.+)\.df-mc\.dev$ in place of the
\* program's: anything may stand before the suffix.
FindStringSubmatchAny(addr) ==
    LET n == Len(addr)
        k == Len(PRSuffix)
    IN IF n > k /\ SubSeq(addr, n - k + 1, n) = PRSuffix
       THEN <<addr, SubSeq(addr, 1, n - k)>>
       ELSE <<>>

\* regexp.MustCompile(`^(\d+)\.df-mc\.dev$`).FindStringSubmatch(addr): the
\* sequence <<whole match, captured digits>>, or <<>> when addr does not match.
FindStringSubmatch(addr) ==
    LET n == Len(addr)
        k == Len(PRSuffix)
    IN IF /\ n > k
          /\ SubSeq(addr, n - k + 1, n) = PRSuffix
          /\ \A i \in 1..(n - k) : addr[i] \in Digits
       THEN <<addr, SubSeq(addr, 1, n - k)>>
       ELSE <<>>

\* FixedPort with the plots server sent to the main server's port.
FixedPortOnePort(addr) ==
    IF addr = DfMcDev \/ addr = MainIP \/ addr = PlotsHost THEN MainPort ELSE 0

\* handleConnection lines 80-83: the fixed port of an address, 0 when the
\* address is not a fixed one.
FixedPort(addr) ==
    IF addr = DfMcDev \/ addr = MainIP THEN MainPort
    ELSE IF addr = PlotsHost THEN PlotsPort
    ELSE 0


\* ------------------------------------------------------------------ state

VARIABLES
    now,              \* wall clock (time.Now), in hours
    dirs,             \* PRs whose directory "pr-<pr>" exists on the host
    containers,       \* containers known to Docker: [pr, port, status]
    lastConnections,  \* Listener.lastConnections: PR -> time of last redirect
    waiting,          \* number of logged-in connections waiting in listener.Accept
    pc,               \* position of the Listen goroutine
    addr,             \* c.ClientData().ServerAddress of the accepted connection
    pr,               \* handleConnection: pr
    port,             \* handleConnection: port
    targetPort,       \* handleConnection: targetPort
    result,           \* what was sent on the connection Accept last returned
    calls,            \* history: what handleConnection touched for this session
    inBatch,          \* history: the accepted session belongs to the batch
    batch,            \* history: the sessions that wait while a PR is started
    tracking,         \* history: batches are recorded in this run
    rpc,              \* position of the KillInactiveServers goroutine
    rtodo,            \* range l.lastConnections: keys still to be produced
    rdone,            \* range l.lastConnections: keys already produced
    rcur,             \* KillInactiveServers: pr
    rlast,            \* KillInactiveServers: lastConn
    stopFailed,       \* history: the last "docker kill" of StopServer failed
    listener,         \* Listener.listener: "nil" or "set"
    closed,           \* the minecraft.Listener has been closed
    killChan,         \* Listener.killChan: "nil", "open" or "closed"
    cpc,              \* position of the goroutine of main that calls Close
    apiKey,           \* Router.apiKey
    images,           \* PRs whose Docker image "pr-<pr>" exists
    binaries,         \* PRs whose file "binaries/pr-<pr>" exists
    hpc,              \* position of the HTTP handler goroutine
    req,              \* the HTTP request being served
    status,           \* status code of the last HTTP response, 0 before it
    deleted,          \* history: PRs deleted with 204 and not uploaded since
    hadDir            \* history: the request's PR had a directory when it arrived

listenerVars == <<pc, addr, pr, port, targetPort, result, calls, inBatch>>
reaperVars == <<rpc, rtodo, rdone, rcur, rlast, stopFailed>>
shutdownVars == <<listener, closed, killChan, cpc>>
routerVars == <<apiKey, images, binaries, hpc, req, status, deleted, hadDir>>

\* A connection's outcome.
NoResult == [kind |-> "none", port |-> 0, msg |-> ""]
Transferred(p) == [kind |-> "transfer", port |-> p, msg |-> ""]
Disconnected(m) == [kind |-> "disconnect", port |-> 0, msg |-> m]

\* No HTTP request.
NoRequest == [route |-> "", pr |-> <<>>, key |-> "", file |-> FALSE]

\* A batch: the session that calls StartServer for a PR while other sessions
\* wait, and those sessions. pr: the PR; left: the sessions that waited at that
\* call and are not accepted yet; first: the result of the first session; ext: a
\* container of the PR has exited since the batch began.
NoBatch == [pr |-> <<>>, left |-> 0, first |-> NoResult, ext |-> FALSE]

\* The PR a server address asks for, <<>> when it asks for none.
RequestedPR(a) ==
    LET host == SplitFirst(a)
        matches == FindStringSubmatch(host)
    IN IF FixedPort(host) = 0 /\ Len(matches) > 1 THEN matches[2] ELSE <<>>

\* ----------------------------------------------------------------- Docker

\* Containers "docker ps" lists for the label pr=<pr>: a container that was sent
\* SIGINT is listed until it has exited.
ListContainers(p) == {c \in containers : c.pr = p}

\* Docker.ServerPort: the possible (port, found, err) results.
ServerPortResults(p) ==
    {[port |-> 0, found |-> FALSE, err |-> TRUE]}
        \cup (IF ListContainers(p) = {}
              THEN {[port |-> 0, found |-> FALSE, err |-> FALSE]}
              ELSE {[port |-> c.port, found |-> TRUE, err |-> FALSE] : c \in ListContainers(p)})

\* "docker run -d --rm --name pr-<pr> --label pr=<pr> -p 0:19132/udp pr-<pr>":
\* the sets of containers that can exist afterwards when the command succeeds
\* (none when the image does not exist, the name is taken or no host port is
\* free).
DockerRun(p) ==
    IF p \notin images \/ \E c \in containers : c.pr = p
    THEN {}
    ELSE {containers \cup {[pr |-> p, port |-> q, status |-> "running"]} :
            q \in Ports \ {c.port : c \in containers}}

\* "docker kill --signal=SIGINT pr-<pr>" when it reaches the container.
DockerKill(p) ==
    {IF c.pr = p THEN [c EXCEPT !.status = "stopping"] ELSE c : c \in containers}

\* --------------------------------------------------------------- Listener

\* m[k] = v of a Go map.
MapSet(m, k, v) == [x \in DOMAIN m \cup {k} |-> IF x = k THEN v ELSE m[x]]

\* delete(m, k) of a Go map.
MapDelete(m, k) == [x \in DOMAIN m \ {k} |-> m[x]]

\* NeedsStart without the look at found: every session starts the server.
NeedsStartAlways(r) == TRUE

\* handleConnection line 102: the server has to be started.
NeedsStart(r) == ~r.found

\* TargetPortOf with the main server's port in place of the container's.
TargetPortOfMain(p) == MainPort

\* handleConnection line 118: targetPort = port
TargetPortOf(p) == p

\* The batch b as a session ends with result res; member: the session is one
\* of the batch's. The batch is over when its last session has ended.
BatchAfter(b, member, res) ==
    IF b.left = 0 THEN NoBatch
    ELSE IF member /\ b.first = NoResult THEN [b EXCEPT !.first = res]
    ELSE b

\* The batch after a StartServer call for PR p: a call made while other
\* sessions wait and no batch is open opens one, with those sessions.
BatchStart(b, p) ==
    IF tracking /\ b = NoBatch /\ waiting > 0
    THEN [NoBatch EXCEPT !.pr = p, !.left = waiting]
    ELSE b

\* handleConnection returns after the connection got res: its locals are gone.
Finish(b, member, res) ==
    /\ result' = res
    /\ pc' = "Accept"
    /\ addr' = <<>>
    /\ pr' = <<>>
    /\ port' = 0
    /\ targetPort' = 0
    /\ calls' = {}
    /\ inBatch' = FALSE
    /\ batch' = BatchAfter(b, member, res)

\* Disconnect without the return: the handler goes on to the end of
\* handleConnection.
DisconnectNoReturn(m) ==
    /\ result' = Disconnected(m)
    /\ pc' = "Transfer"
    /\ UNCHANGED <<addr, pr, port, targetPort, calls, inBatch, batch>>

\* l.listener.Disconnect(c, msg); return
Disconnect(m) == Finish(batch, inBatch, Disconnected(m))

\* A client has logged in and waits to be accepted.
Connect ==
    /\ waiting < MaxPending
    /\ waiting' = waiting + 1
    /\ UNCHANGED <<now, dirs, containers, lastConnections, listenerVars, batch,
                   tracking, shutdownVars, routerVars, reaperVars>>

\* Listen lines 43-52: listener.Accept() returns a connection, whose server
\* address a is read here for the first time.
Accept(a) ==
    /\ pc = "Accept"
    /\ ~closed
    /\ waiting > 0
    /\ waiting' = waiting - 1
    /\ addr' = a
    /\ pc' = "StartGame"
    /\ result' = NoResult
    /\ inBatch' = (batch.left > 0 /\ RequestedPR(a) = batch.pr)
    /\ batch' = IF batch.left > 0 THEN [batch EXCEPT !.left = @ - 1] ELSE batch
    /\ UNCHANGED <<now, dirs, containers, lastConnections, pr, port, targetPort, calls,
                   tracking, shutdownVars, routerVars, reaperVars>>

\* Listen lines 44-51 with every error of Accept ending the loop.
AcceptErrorReturns ==
    /\ pc = "Accept"
    /\ pc' = "returned"
    /\ result' = NoResult
    /\ UNCHANGED <<now, dirs, containers, lastConnections, waiting, addr, pr, port,
                   targetPort, calls, inBatch, batch, tracking, reaperVars,
                   shutdownVars, routerVars>>

\* Listen lines 44-51: listener.Accept() returns an error (always, once the
\* listener is closed): Listen returns nil when l.listener is nil and tries
\* again otherwise.
AcceptError ==
    /\ pc = "Accept"
    /\ pc' = IF listener = "nil" THEN "returned" ELSE "Accept"
    /\ result' = NoResult
    /\ UNCHANGED <<now, dirs, containers, lastConnections, waiting, addr, pr, port,
                   targetPort, calls, inBatch, batch, tracking, reaperVars,
                   shutdownVars, routerVars>>

\* StartGame with the return of line 73 missing: after a failed handshake the
\* handler goes on to parse the address.
StartGameNoReturn ==
    /\ pc = "StartGame"
    /\ \E ok \in BOOLEAN :
         /\ pc' = "Route"
         /\ result' = IF ok THEN result ELSE Disconnected("Failed to start game")
         /\ UNCHANGED <<addr, pr, port, targetPort, calls, inBatch, batch>>
    /\ UNCHANGED <<now, dirs, containers, lastConnections, waiting,
                   tracking, reaperVars, shutdownVars, routerVars>>

\* handleConnection lines 69-74: c.StartGame succeeds or fails.
StartGame ==
    /\ pc = "StartGame"
    /\ \E ok \in BOOLEAN :
         IF ok
         THEN /\ pc' = "Route"
              /\ UNCHANGED <<addr, pr, port, targetPort, result, calls, inBatch, batch>>
         ELSE Disconnect("Failed to start game")
    /\ UNCHANGED <<now, dirs, containers, lastConnections, waiting,
                   tracking, shutdownVars, routerVars, reaperVars>>

\* DirExists with every directory found.
DirExistsAlways(p) == TRUE

\* handleConnection line 90: os.Stat("pr-" + pr) returns no error.
DirExists(p) == p \in dirs

\* handleConnection lines 78-94 and 120-125: the address is parsed, and for a
\* pull request the directory is looked up with os.Stat.
Route ==
    /\ pc = "Route"
    /\ LET host == SplitFirst(addr)
           matches == FindStringSubmatch(host)
       IN IF FixedPort(host) # 0
          THEN /\ targetPort' = FixedPort(host)
               /\ pc' = "Transfer"
               /\ UNCHANGED <<addr, pr, port, result, calls, inBatch, batch>>
          ELSE IF Len(matches) > 1
          THEN IF DirExists(matches[2])
               THEN /\ pr' = matches[2]
                    /\ calls' = calls \cup {"Stat"}
                    /\ pc' = "ServerPort"
                    /\ UNCHANGED <<addr, port, targetPort, result, inBatch, batch>>
               ELSE Disconnect("Invalid or outdated pull request")
          ELSE Disconnect("Invalid server address")
    /\ UNCHANGED <<now, dirs, containers, lastConnections, waiting,
                   tracking, shutdownVars, routerVars, reaperVars>>

\* handleConnection lines 97-102 and 115-117: l.docker.ServerPort(pr).
ServerPort ==
    /\ pc = "ServerPort"
    /\ \E r \in ServerPortResults(pr) :
         IF r.err
         THEN Disconnect("Failed to get server port")
         ELSE /\ pc' = IF NeedsStart(r) THEN "StartServer" ELSE "Touch"
              /\ port' = r.port
              /\ calls' = calls \cup {"ServerPort"}
              /\ UNCHANGED <<addr, pr, targetPort, result, inBatch, batch>>
    /\ UNCHANGED <<now, dirs, containers, lastConnections, waiting,
                   tracking, shutdownVars, routerVars, reaperVars>>

\* handleConnection line 104 with Docker.StartServer lines 58-64: "docker run"
\* starts a container, or fails.
StartServer ==
    /\ pc = "StartServer"
    /\ LET b == BatchStart(batch, pr)
           member == inBatch \/ b # batch
       IN \/ /\ \E cs \in DockerRun(pr) : containers' = cs
             /\ pc' = "StartServerPort"
             /\ calls' = calls \cup {"StartServer"}
             /\ inBatch' = member
             /\ batch' = b
             /\ UNCHANGED <<addr, pr, port, targetPort, result>>
          \/ /\ Finish(b, member, Disconnected("Failed to start server"))
             /\ UNCHANGED containers
    /\ UNCHANGED <<now, dirs, lastConnections, waiting,
                   tracking, shutdownVars, routerVars, reaperVars>>

\* Docker.StartServer lines 65-71 with handleConnection lines 105-114: the port
\* of the started container is looked up.
StartServerPort ==
    /\ pc = "StartServerPort"
    /\ \E r \in ServerPortResults(pr) :
         IF r.err
         THEN Disconnect("Failed to start server")
         ELSE IF ~r.found
         THEN Disconnect("Server not found for PR")
         ELSE /\ port' = r.port
              /\ pc' = "Touch"
              /\ UNCHANGED <<addr, pr, targetPort, result, calls, inBatch, batch>>
    /\ UNCHANGED <<now, dirs, containers, lastConnections, waiting,
                   tracking, shutdownVars, routerVars, reaperVars>>

\* handleConnection lines 118-119: the port is kept and the activity recorded.
Touch ==
    /\ pc = "Touch"
    /\ targetPort' = TargetPortOf(port)
    /\ lastConnections' = MapSet(lastConnections, pr, now)
    /\ calls' = calls \cup {"Touch"}
    /\ pc' = "Transfer"
    /\ UNCHANGED <<now, dirs, containers, waiting, addr, pr, port, result, inBatch, batch,
                   tracking, shutdownVars, routerVars, reaperVars>>

\* handleConnection lines 127-139: the packet.Transfer is written.
Transfer ==
    /\ pc = "Transfer"
    /\ IF targetPort = 0
       THEN Disconnect("Failed to determine target port")
       ELSE Finish(batch, inBatch, Transferred(targetPort))
    /\ UNCHANGED <<now, dirs, containers, lastConnections, waiting,
                   tracking, shutdownVars, routerVars, reaperVars>>

\* ------------------------------------------------------------ environment

\* Time passes.
Tick ==
    /\ now < MaxTime
    /\ now' = now + 1
    /\ UNCHANGED <<dirs, containers, lastConnections, waiting, listenerVars, batch,
                   tracking, shutdownVars, routerVars, reaperVars>>

\* A container's process ends (by itself, or after SIGINT) and "--rm" removes
\* the container.
ContainerExit(c) ==
    /\ c \in containers
    /\ containers' = containers \ {c}
    /\ batch' = IF c.pr = batch.pr THEN [batch EXCEPT !.ext = TRUE] ELSE batch
    /\ UNCHANGED <<now, dirs, lastConnections, waiting, listenerVars,
                   tracking, shutdownVars, routerVars, reaperVars>>

\* ----------------------------------------------------------------- Router

\* Values of the API_KEY environment variable ("" when it is not set).
APIKeys == {"", "k"}

\* Values request.Header.Get("X-API-Key") returns: "" when the header is absent
\* or empty.
HeaderKeys == {"", "k", "x"}

PostRoute == "POST /pullrequest"
DeleteRoute == "DELETE /pullrequest/{pr}"
\* A method and path that match neither pattern, such as GET /pullrequest.
OtherRoute == "other"

\* The PR a request names, in the form field "pr" or in the path.
RequestPRs == {<<"1">>, <<"x">>}

\* The HTTP requests: route, pr, X-API-Key header, and whether the form holds
\* the file "binary".
Requests ==
    [route : {PostRoute}, pr : RequestPRs, key : HeaderKeys, file : BOOLEAN]
        \cup [route : {DeleteRoute}, pr : RequestPRs, key : HeaderKeys, file : {FALSE}]
        \cup [route : {OtherRoute}, pr : {<<>>}, key : HeaderKeys, file : {FALSE}]

\* strconv.Atoi(s) returns no error: an optional sign and at least one digit.
AtoiOk(s) ==
    LET body == IF Len(s) > 0 /\ s[1] \in {"+", "-"} THEN Tail(s) ELSE s
    IN Len(body) > 0 /\ \A i \in 1..Len(body) : body[i] \in Digits

\* Authorized with a request without the header let through.
AuthorizedOrAbsent(key) == key = "" \/ key = apiKey

\* apiKeyMiddleware line 46: the request is passed on to the handler.
Authorized(key) == key = apiKey

\* The response is written and the handler returns.
Respond(code) ==
    /\ status' = code
    /\ hpc' = "idle"
    /\ req' = NoRequest

\* A request arrives at the HTTP server.
HttpRequest(r) ==
    /\ hpc = "idle"
    /\ hpc' = "serve"
    /\ req' = r
    /\ status' = 0
    /\ hadDir' = (r.pr \in dirs)
    /\ UNCHANGED <<now, dirs, containers, lastConnections, waiting, listenerVars,
                   batch, tracking, reaperVars, shutdownVars, apiKey, images,
                   binaries, deleted>>

\* Run lines 37-38 (the mux finds the pattern of the request, or answers 404),
\* apiKeyMiddleware, and the checks of the request at the start of
\* handleCreatePullRequest (lines 65-81) and handleDeletePullRequest (lines
\* 109-114).
Serve ==
    /\ hpc = "serve"
    /\ IF req.route = OtherRoute THEN Respond(404)
       ELSE IF ~Authorized(req.key) THEN Respond(401)
       ELSE IF req.route = PostRoute
       THEN \E parsed \in BOOLEAN :
              IF ~parsed \/ ~AtoiOk(req.pr) \/ ~req.file
              THEN Respond(400)
              ELSE /\ hpc' = "Mkdir"
                   /\ UNCHANGED <<req, status>>
       ELSE IF ~AtoiOk(req.pr)
            THEN Respond(400)
            ELSE /\ hpc' = "Stat"
                 /\ UNCHANGED <<req, status>>
    /\ UNCHANGED <<now, dirs, containers, lastConnections, waiting, listenerVars,
                   batch, tracking, reaperVars, shutdownVars, apiKey, hadDir, images,
                   binaries, deleted>>

\* uploadBinary line 137: os.Mkdir("pr-" + pr), its error dropped.
PostMkdir ==
    /\ hpc = "Mkdir"
    /\ dirs' = dirs \cup {req.pr}
    /\ deleted' = deleted \ {req.pr}
    /\ hpc' = "Copy"
    /\ UNCHANGED <<now, containers, lastConnections, waiting, listenerVars,
                   batch, tracking, reaperVars, shutdownVars, apiKey, hadDir, images,
                   binaries, req, status>>

\* uploadBinary lines 138-149 with handleCreatePullRequest lines 84-88: the
\* binary is created and written, or the creation or the copy fails.
PostCopy ==
    /\ hpc = "Copy"
    /\ \E outcome \in {"ok", "create", "copy"} :
         /\ binaries' = IF outcome = "create" THEN binaries ELSE binaries \cup {req.pr}
         /\ IF outcome = "ok"
            THEN /\ hpc' = "Build"
                 /\ UNCHANGED <<req, status>>
            ELSE Respond(500)
    /\ UNCHANGED <<now, dirs, containers, lastConnections, waiting, listenerVars,
                   batch, tracking, reaperVars, shutdownVars, apiKey, hadDir, images,
                   deleted>>

\* BuildImage lines 30-34 with handleCreatePullRequest lines 89-93: "docker
\* build -t pr-<pr>" builds the image or fails.
PostBuild ==
    /\ hpc = "Build"
    /\ \E ok \in BOOLEAN :
         IF ok
         THEN /\ images' = images \cup {req.pr}
              /\ hpc' = "BuildKill"
              /\ UNCHANGED <<req, status>>
         ELSE /\ Respond(500)
              /\ UNCHANGED images
    /\ UNCHANGED <<now, dirs, containers, lastConnections, waiting, listenerVars,
                   batch, tracking, reaperVars, shutdownVars, apiKey, hadDir, binaries,
                   deleted>>

\* "docker kill --signal=SIGINT pr-<pr> ..." with its result dropped: the sets
\* of containers afterwards.
DockerKillResults(p) ==
    {containers} \cup (IF ListContainers(p) = {} THEN {} ELSE {DockerKill(p)})

\* BuildImage line 35 with handleCreatePullRequest lines 95-96: the running
\* container of the PR is sent SIGINT and 201 is answered.
PostKill ==
    /\ hpc = "BuildKill"
    /\ \E cs \in DockerKillResults(req.pr) : containers' = cs
    /\ Respond(201)
    /\ UNCHANGED <<now, dirs, lastConnections, waiting, listenerVars,
                   batch, tracking, reaperVars, shutdownVars, apiKey, hadDir, images,
                   binaries, deleted>>

\* handleDeletePullRequest lines 117-123: os.Stat("pr-" + pr).
DeleteStat ==
    /\ hpc = "Stat"
    /\ IF req.pr \in dirs
       THEN /\ hpc' = "Kill"
            /\ UNCHANGED <<req, status>>
       ELSE Respond(404)
    /\ UNCHANGED <<now, dirs, containers, lastConnections, waiting, listenerVars,
                   batch, tracking, reaperVars, shutdownVars, apiKey, hadDir, images,
                   binaries, deleted>>

\* DeleteServer line 77: "docker kill --signal=SIGINT pr-<pr>".
DeleteKill ==
    /\ hpc = "Kill"
    /\ \E cs \in DockerKillResults(req.pr) : containers' = cs
    /\ hpc' = "Wait"
    /\ UNCHANGED <<now, dirs, lastConnections, waiting, listenerVars,
                   batch, tracking, reaperVars, shutdownVars, apiKey, hadDir, images,
                   binaries, req, status, deleted>>

\* DeleteServer line 78: "docker wait pr-<pr>" returns when the container has
\* exited, and at once when there is none.
DeleteWait ==
    /\ hpc = "Wait"
    /\ ListContainers(req.pr) = {}
    /\ hpc' = "ImageRm"
    /\ UNCHANGED <<now, dirs, containers, lastConnections, waiting, listenerVars,
                   batch, tracking, reaperVars, shutdownVars, apiKey, hadDir, images,
                   binaries, req, status, deleted>>

\* DeleteServer line 79: "docker image rm pr-<pr>" removes the image unless a
\* container uses it; its error is dropped.
DeleteImageRm ==
    /\ hpc = "ImageRm"
    /\ images' = IF ListContainers(req.pr) = {} THEN images \ {req.pr} ELSE images
    /\ hpc' = "RemoveAll"
    /\ UNCHANGED <<now, dirs, containers, lastConnections, waiting, listenerVars,
                   batch, tracking, reaperVars, shutdownVars, apiKey, hadDir,
                   binaries, req, status, deleted>>

\* handleDeletePullRequest lines 127-131: the directory and the binary are
\* removed and 204 is answered.
DeleteFiles ==
    /\ hpc = "RemoveAll"
    /\ dirs' = dirs \ {req.pr}
    /\ binaries' = binaries \ {req.pr}
    /\ deleted' = deleted \cup {req.pr}
    /\ Respond(204)
    /\ UNCHANGED <<now, containers, lastConnections, waiting, listenerVars,
                   batch, tracking, reaperVars, shutdownVars, apiKey, hadDir, images>>

\* --------------------------------------------------------------- shutdown

\* Listen lines 36-41: minecraft.Listen binds the address and the listener is
\* stored in l.listener, or Listen returns the error.
ListenStart ==
    /\ pc = "Listen"
    /\ \E ok \in BOOLEAN :
         IF ok
         THEN /\ listener' = "set"
              /\ pc' = "Accept"
         ELSE /\ pc' = "failed"
              /\ UNCHANGED listener
    /\ UNCHANGED <<now, dirs, containers, lastConnections, waiting, addr, pr, port,
                   targetPort, result, calls, inBatch, batch, tracking, reaperVars,
                   closed, killChan, cpc, routerVars>>

\* main lines 40-43 with Close lines 165-166: a signal arrives and Close reads
\* l.listener; when it is not nil the minecraft.Listener is closed.
CloseListener ==
    /\ cpc = "signal"
    /\ IF listener # "nil"
       THEN /\ closed' = TRUE
            /\ cpc' = "setnil"
       ELSE /\ cpc' = "killChan"
            /\ UNCHANGED closed
    /\ UNCHANGED <<now, dirs, containers, lastConnections, waiting, listenerVars,
                   batch, tracking, reaperVars, listener, killChan, routerVars>>

\* Close line 167: l.listener = nil
CloseSetNil ==
    /\ cpc = "setnil"
    /\ listener' = "nil"
    /\ cpc' = "killChan"
    /\ UNCHANGED <<now, dirs, containers, lastConnections, waiting, listenerVars,
                   batch, tracking, reaperVars, closed, killChan, routerVars>>

\* Close lines 169-171: killChan is closed when it is not nil.
CloseKillChan ==
    /\ cpc = "killChan"
    /\ killChan' = IF killChan # "nil" THEN "closed" ELSE killChan
    /\ cpc' = "done"
    /\ UNCHANGED <<now, dirs, containers, lastConnections, waiting, listenerVars,
                   batch, tracking, reaperVars, listener, closed, routerVars>>

\* ----------------------------------------------------------------- Reaper

\* Inactive with >= in place of >.
InactiveAtHour(lastConn) == now - lastConn >= Hour

\* KillInactiveServers line 150: time.Since(lastConn) > time.Hour
Inactive(lastConn) == now - lastConn > Hour

\* Docker.StopServer line 85: "docker kill --signal=SIGINT pr-<pr> ..." with its
\* result dropped: the container sets afterwards, each with whether the command
\* reached a container.
StopServerResults(p) ==
    {[containers |-> containers, reached |-> FALSE]}
        \cup (IF ListContainers(p) = {} THEN {}
              ELSE {[containers |-> DockerKill(p), reached |-> TRUE]})

\* KillInactiveServers lines 147-156: the cases of the select that can be
\* taken. The ticker fires again and again; a receive from killChan is ready
\* once the channel is closed, and never while it is nil.
SelectReady == {"tick"} \cup (IF killChan = "closed" THEN {"kill"} ELSE {})

\* KillInactiveServers lines 147-149 and 156-158: the select takes the ticker's
\* case and the range over l.lastConnections begins, or it takes killChan's
\* case and the loop returns.
ReaperTick ==
    /\ rpc = "select"
    /\ \E c \in SelectReady :
         IF c = "tick"
         THEN /\ rpc' = "range"
              /\ rtodo' = DOMAIN lastConnections
              /\ rdone' = {}
         ELSE /\ rpc' = "returned"
              /\ UNCHANGED <<rtodo, rdone>>
    /\ UNCHANGED <<now, dirs, containers, lastConnections, waiting, listenerVars,
                   batch, tracking, shutdownVars, routerVars, rcur, rlast, stopFailed>>

\* KillInactiveServers lines 149-151: the range produces the entry of p (one
\* that was in the map when the range began, or one added since) and its time
\* is compared with the clock.
ReaperNext(p) ==
    /\ rpc = "range"
    /\ p \in DOMAIN lastConnections \ rdone
    /\ rdone' = rdone \cup {p}
    /\ rtodo' = rtodo \ {p}
    /\ IF Inactive(lastConnections[p])
       THEN /\ rpc' = "StopServer"
            /\ rcur' = p
            /\ rlast' = lastConnections[p]
       ELSE UNCHANGED <<rpc, rcur, rlast>>
    /\ UNCHANGED <<now, dirs, containers, lastConnections, waiting, listenerVars,
                   batch, tracking, shutdownVars, routerVars, stopFailed>>

\* KillInactiveServers line 152: l.docker.StopServer(pr).
ReaperStop ==
    /\ rpc = "StopServer"
    /\ \E r \in StopServerResults(rcur) :
         /\ containers' = r.containers
         /\ stopFailed' = ~r.reached
    /\ rpc' = "delete"
    /\ UNCHANGED <<now, dirs, lastConnections, waiting, listenerVars,
                   batch, tracking, shutdownVars, routerVars, rtodo, rdone, rcur, rlast>>

\* KillInactiveServers line 153: delete(l.lastConnections, pr).
ReaperDelete ==
    /\ rpc = "delete"
    /\ lastConnections' = MapDelete(lastConnections, rcur)
    /\ rpc' = "range"
    /\ UNCHANGED <<now, dirs, containers, waiting, listenerVars,
                   batch, tracking, shutdownVars, routerVars, rtodo, rdone, rcur, rlast, stopFailed>>

\* KillInactiveServers lines 149-155: the range is over, back to the select.
ReaperEnd ==
    /\ rpc = "range"
    /\ rtodo \cap DOMAIN lastConnections = {}
    /\ rpc' = "select"
    /\ rtodo' = {}
    /\ rdone' = {}
    /\ rcur' = <<>>
    /\ rlast' = 0
    /\ stopFailed' = FALSE
    /\ UNCHANGED <<now, dirs, containers, lastConnections, waiting, listenerVars,
                   batch, tracking, shutdownVars, routerVars>>

\* l.lastConnections is a plain map, written on line 119 by the Listen
\* goroutine and read and written on lines 149-153 by KillInactiveServers with
\* no lock: when both are at the map at once the Go runtime can end the process
\* with "fatal error: concurrent map iteration and map write".
MapRace ==
    /\ pc = "Touch"
    /\ rpc \in {"range", "delete"}
    /\ pc' = "crashed"
    /\ rpc' = "crashed"
    /\ UNCHANGED <<now, dirs, containers, lastConnections, waiting,
                   addr, pr, port, targetPort, result, calls, inBatch,
                   batch, tracking, shutdownVars, routerVars, rtodo, rdone, rcur, rlast, stopFailed>>

\* ------------------------------------------------------------------- spec

vars == <<now, dirs, containers, lastConnections, waiting,
          pc, addr, pr, port, targetPort, result, calls, inBatch, batch, tracking,
          rpc, rtodo, rdone, rcur, rlast, stopFailed,
          listener, closed, killChan, cpc,
          apiKey, images, binaries, hpc, req, status, deleted, hadDir>>

\* NewListener(docker) has run, ClearContainers has cleared the PR containers,
\* and Listen has stored its listener; directories of earlier uploads may exist.
InitListener ==
    /\ now = 0
    /\ dirs \in {{<<"1">>}, PRs}
    /\ containers = {}
    /\ lastConnections = <<>>
    /\ waiting = 0
    /\ pc = "Accept"
    /\ addr = <<>>
    /\ pr = <<>>
    /\ port = 0
    /\ targetPort = 0
    /\ result = NoResult
    /\ calls = {}
    /\ inBatch = FALSE
    /\ batch = NoBatch
    /\ rtodo = {}
    /\ rdone = {}
    /\ rcur = <<>>
    /\ rlast = 0
    /\ stopFailed = FALSE
    /\ listener = "set"
    /\ closed = FALSE
    /\ killChan = "nil"
    /\ images = dirs
    /\ binaries = dirs
    /\ deleted = {}
    /\ hadDir = FALSE

\* No signal arrives: Close is not called.
NoSignal == cpc = "off"

\* No HTTP request arrives.
NoRequests ==
    /\ apiKey = ""
    /\ hpc = "off"
    /\ req = NoRequest
    /\ status = 0

\* main lines 38-46: the listener is created and Listen is called; no
\* goroutine runs KillInactiveServers.
Init ==
    /\ InitListener
    /\ rpc = "off"
    /\ tracking = FALSE
    /\ NoSignal
    /\ NoRequests

\* The steps of the Listen goroutine.
ListenerStep ==
    \/ \E a \in Addresses : Accept(a)
    \/ AcceptError
    \/ StartGame
    \/ Route
    \/ ServerPort
    \/ StartServer
    \/ StartServerPort
    \/ Touch
    \/ Transfer

\* Clients, the clock and the containers.
EnvStep ==
    \/ Connect
    \/ Tick
    \/ \E c \in containers : ContainerExit(c)

\* The steps of the KillInactiveServers goroutine.
ReaperStep ==
    \/ ReaperTick
    \/ \E p \in PRs : ReaperNext(p)
    \/ ReaperStop
    \/ ReaperDelete
    \/ ReaperEnd

Next == ListenerStep \/ EnvStep

\* The program as main runs it.
Spec == Init /\ [][Next]_vars

\* The program as main runs it, with its goroutines and the clock never
\* starved; clients and containers are free to do nothing.
FairSpec == Init /\ [][Next]_vars /\ WF_vars(ListenerStep) /\ WF_vars(Tick)

\* The program as main runs it, with the batches of sessions recorded.
InitBatch ==
    /\ InitListener
    /\ rpc = "off"
    /\ tracking = TRUE
    /\ NoSignal
    /\ NoRequests

SpecBatch == InitBatch /\ [][Next]_vars

\* The listener with KillInactiveServers running in a goroutine of its own
\* beside Listen.
InitReaper ==
    /\ InitListener
    /\ rpc = "select"
    /\ tracking = FALSE
    /\ NoSignal
    /\ NoRequests

NextReaper == ListenerStep \/ EnvStep \/ ReaperStep \/ MapRace

SpecReaper == InitReaper /\ [][NextReaper]_vars

\* main with the router serving one HTTP request at a time while the listener
\* handles sessions; API_KEY is set or not. The clock plays no part here.
InitRouter ==
    /\ now = 0
    /\ dirs \in {{}, {<<"1">>}}
    /\ containers = {}
    /\ lastConnections = <<>>
    /\ waiting = 0
    /\ pc = "Accept"
    /\ addr = <<>>
    /\ pr = <<>>
    /\ port = 0
    /\ targetPort = 0
    /\ result = NoResult
    /\ calls = {}
    /\ inBatch = FALSE
    /\ batch = NoBatch
    /\ tracking = FALSE
    /\ rpc = "off"
    /\ rtodo = {}
    /\ rdone = {}
    /\ rcur = <<>>
    /\ rlast = 0
    /\ stopFailed = FALSE
    /\ listener = "set"
    /\ closed = FALSE
    /\ killChan = "nil"
    /\ NoSignal
    /\ apiKey \in APIKeys
    /\ images = dirs
    /\ binaries = dirs
    /\ hpc = "idle"
    /\ req = NoRequest
    /\ status = 0
    /\ deleted = {}
    /\ hadDir = FALSE

\* The steps of the goroutine that serves an HTTP request.
RouterStep ==
    \/ \E r \in Requests : HttpRequest(r)
    \/ Serve
    \/ PostMkdir
    \/ PostCopy
    \/ PostBuild
    \/ PostKill
    \/ DeleteStat
    \/ DeleteKill
    \/ DeleteWait
    \/ DeleteImageRm
    \/ DeleteFiles

NextRouter ==
    \/ ListenerStep
    \/ Connect
    \/ \E c \in containers : ContainerExit(c)
    \/ RouterStep

SpecRouter == InitRouter /\ [][NextRouter]_vars

\* main from the call of Listen on, with a signal that arrives at any moment,
\* before or after Listen has stored its listener.
InitShutdown ==
    /\ now = 0
    /\ dirs = {<<"1">>}
    /\ containers = {}
    /\ lastConnections = <<>>
    /\ waiting = 0
    /\ pc = "Listen"
    /\ addr = <<>>
    /\ pr = <<>>
    /\ port = 0
    /\ targetPort = 0
    /\ result = NoResult
    /\ calls = {}
    /\ inBatch = FALSE
    /\ batch = NoBatch
    /\ tracking = FALSE
    /\ rpc = "off"
    /\ rtodo = {}
    /\ rdone = {}
    /\ rcur = <<>>
    /\ rlast = 0
    /\ stopFailed = FALSE
    /\ listener = "nil"
    /\ closed = FALSE
    /\ killChan = "nil"
    /\ cpc = "signal"
    /\ images = dirs
    /\ binaries = dirs
    /\ deleted = {}
    /\ hadDir = FALSE
    /\ NoRequests

\* The steps of the goroutine of main that waits for the signal.
CloseStep ==
    \/ CloseListener
    \/ CloseSetNil
    \/ CloseKillChan

NextShutdown == ListenStart \/ ListenerStep \/ EnvStep \/ CloseStep

SpecShutdown == InitShutdown /\ [][NextShutdown]_vars

\* The same with KillInactiveServers running in a goroutine of its own, and no
\* goroutine starved.
InitShutdownReaper ==
    /\ InitListener
    /\ rpc = "select"
    /\ tracking = FALSE
    /\ cpc = "signal"
    /\ NoRequests

NextShutdownReaper == ListenerStep \/ EnvStep \/ ReaperStep \/ MapRace \/ CloseStep

FairSpecShutdownReaper ==
    /\ InitShutdownReaper
    /\ [][NextShutdownReaper]_vars
    /\ WF_vars(ListenerStep)
    /\ WF_vars(ReaperStep)
    /\ WF_vars(CloseStep)

\* ------------------------------------------------------------- properties

\* The Listen goroutine takes a step of handleConnection.
HandlerStep == pc # "Accept" /\ pc' # pc

\* The session being handled is one of a batch whose first session has ended.
LaterInBatch == inBatch /\ batch.first # NoResult

\* At most one container exists per PR.
AtMostOneInstance == \A p \in PRs : Cardinality(ListContainers(p)) <= 1

\* StartServer is called only when no container of the PR is listed.
NoStartWhileRunning == pc = "StartServer" => ListContainers(pr) = {}

C2_NoBlocking ==
    (pc \in {"StartServer", "StartServerPort"} /\ waiting > 0)
        => \E a \in Addresses : RequestedPR(a) # pr /\ ENABLED Accept(a)

\* PR p has a container and its last redirect is more than an hour old.
IdleTooLong(p) ==
    /\ p \in DOMAIN lastConnections
    /\ now - lastConnections[p] > Hour
    /\ ListContainers(p) # {}

\* C3 as stated: a PR whose server has had no redirect for more than an hour
\* is eventually stopped and forgotten, unless a client is redirected to it
\* again.
C3_IdleServerIsStopped ==
    \A p \in PRs :
        IdleTooLong(p) ~> (p \notin DOMAIN lastConnections \/ ~IdleTooLong(p))

\* C4 as stated: the entry the reaper deletes is the one it judged inactive,
\* not one written since.
C4_TouchNotLost ==
    [][(rpc = "delete" /\ rpc' = "range") => lastConnections[rcur] = rlast]_vars

\* C5: a PR is selected for StopServer only when its entry in the map is more
\* than an hour old at the moment the range produces it, and the time the
\* reaper acts on is that old.
C5_OnlyInactiveSelected ==
    /\ [](rpc \in {"StopServer", "delete"} => now - rlast > Hour)
    /\ [][(rpc = "range" /\ rpc' = "StopServer")
            => /\ rcur' \in DOMAIN lastConnections
               /\ now - lastConnections[rcur'] > Hour
               /\ rlast' = lastConnections[rcur']]_vars

\* C5 witness: one PR is selected in a range that has produced another PR whose
\* entry is within the hour.
C5_Witness ==
    /\ rpc = "StopServer"
    /\ \E q \in rdone \cap DOMAIN lastConnections :
         q # rcur /\ now - lastConnections[q] <= Hour

\* C6 as stated: after a failed stop the PR stays in the map.
C6_KeptAfterFailedStop ==
    [][(rpc = "delete" /\ rpc' = "range" /\ stopFailed)
         => rcur \in DOMAIN lastConnections']_vars

\* C7 as stated: a session rejected in StartServer leaves no container of the
\* PR and no change in the map.
C7_NoPartialState ==
    [][(pc \in {"StartServer", "StartServerPort"} /\ pc' = "Accept")
         => /\ result'.kind = "disconnect"
            /\ {c \in containers' : c.pr = pr} = {}
            /\ lastConnections' = lastConnections]_vars

\* C8: a session for a PR reaches the transfer only after ServerPort and the
\* write of the map, with the port of a container as ServerPort gave it; the
\* write sets the PR's entry to the time of the write; and the session ends
\* with one transfer to that port.
C8_TouchThenRedirect ==
    /\ []((pc = "Transfer" /\ pr # <<>>)
            => /\ {"ServerPort", "Touch"} \subseteq calls
               /\ targetPort = port
               /\ port \in Ports
               /\ pr \in DOMAIN lastConnections
               /\ lastConnections[pr] <= now)
    /\ [][(pc = "Touch" /\ pc' = "Transfer")
            => /\ pr \in DOMAIN lastConnections'
               /\ lastConnections'[pr] = now]_vars
    /\ [][(pc = "Transfer" /\ pr # <<>> /\ pc' # pc)
            => result' = Transferred(port)]_vars

\* C8 witness: a session is about to be redirected to the port of the PR's
\* container, with the PR's entry written at the present time.
C8_Witness ==
    /\ pc = "Transfer"
    /\ pr # <<>>
    /\ \E c \in ListContainers(pr) : c.port = targetPort
    /\ lastConnections[pr] = now
    /\ now > 0

\* The host part of the address of the session being handled.
Host == SplitFirst(addr)

\* C9: a session for df-mc.dev or 188.166.78.44 is redirected to 19133 and one
\* for plots.df-mc.dev to 19134, once the game has started, whatever containers
\* and map entries exist; no step of it looks up a directory, calls the driver
\* or changes the directories, the containers or the map.
C9_FixedHosts ==
    /\ []((pc # "Accept" /\ Host \in {DfMcDev, MainIP, PlotsHost})
            => /\ pc \in {"StartGame", "Route", "Transfer"}
               /\ calls = {}
               /\ pc = "Transfer"
                    => targetPort = IF Host = PlotsHost THEN 19134 ELSE 19133)
    /\ [][(HandlerStep /\ Host \in {DfMcDev, MainIP, PlotsHost})
            => /\ UNCHANGED <<dirs, containers, lastConnections>>
               /\ pc = "Route" => pc' = "Transfer"
               /\ pc = "Transfer"
                    => result' = Transferred(IF Host = PlotsHost THEN 19134 ELSE 19133)]_vars

\* C9 witness: a session for plots.df-mc.dev is about to be redirected while a
\* container runs and the map has an entry.
C9_Witness ==
    /\ pc = "Transfer"
    /\ Host = PlotsHost
    /\ containers # {}
    /\ DOMAIN lastConnections # {}

\* Non-empty strings of at most two digits.
DigitStrings == {<<d>> : d \in Digits} \cup {<<d, e>> : d, e \in Digits}

\* The address of the session being handled is neither a fixed host nor digits
\* followed by .df-mc.dev.
InvalidHost ==
    /\ pc # "Accept"
    /\ Host \notin {DfMcDev, MainIP, PlotsHost}
    /\ Host \notin {d \o PRSuffix : d \in DigitStrings}

\* C10: a session for an address that is neither a fixed host nor digits
\* followed by .df-mc.dev gets no further than the parse, where it is rejected
\* as an invalid address, with no directory looked up, no driver call, and the
\* directories, the containers and the map unchanged.
C10_InvalidAddress ==
    /\ [](InvalidHost => pc \in {"StartGame", "Route"} /\ calls = {})
    /\ [][(HandlerStep /\ InvalidHost)
            => /\ UNCHANGED <<dirs, containers, lastConnections>>
               /\ pc = "Route" => result' = Disconnected("Invalid server address")]_vars

\* C10 witness: a session has just been rejected as an invalid address while a
\* container runs and the map has an entry.
C10_Witness ==
    /\ result = Disconnected("Invalid server address")
    /\ pc = "Accept"
    /\ containers # {}
    /\ DOMAIN lastConnections # {}

\* The PR part of the host of the session being handled.
HostPR == SubSeq(Host, 1, Len(Host) - Len(PRSuffix))

\* The session being handled asks for a PR, by digits followed by .df-mc.dev,
\* that has no directory.
NotProvisioned ==
    /\ pc # "Accept"
    /\ Host \in {d \o PRSuffix : d \in DigitStrings}
    /\ HostPR \notin dirs

\* C11: a session for digits followed by .df-mc.dev whose PR has no directory
\* gets no further than the lookup of the directory, where it is rejected as
\* an invalid or outdated pull request, with no call of ServerPort or
\* StartServer and with the containers and the map unchanged.
C11_NoDirectoryRejected ==
    /\ [](NotProvisioned => pc \in {"StartGame", "Route"} /\ calls = {})
    /\ [][(HandlerStep /\ NotProvisioned)
            => /\ UNCHANGED <<dirs, containers, lastConnections>>
               /\ pc = "Route" => result' = Disconnected("Invalid or outdated pull request")]_vars

\* C11 witness: a session has just been rejected for a PR without a directory
\* while the container of another PR runs.
C11_Witness ==
    /\ result = Disconnected("Invalid or outdated pull request")
    /\ pc = "Accept"
    /\ containers # {}

\* C12: the handshake step either succeeds, and the handler goes on to the
\* address with nothing sent, or fails, and the session is rejected with
\* "Failed to start game" and the handler returns: the address was not parsed,
\* nothing was looked up or called, no port was chosen, and the directories,
\* the containers and the map are unchanged.
C12_HandshakeFailure ==
    /\ [](pc = "StartGame" => calls = {} /\ result = NoResult)
    /\ [][(pc = "StartGame" /\ pc' # pc)
            => \/ /\ pc' = "Route"
                  /\ result' = NoResult
               \/ /\ pc' = "Accept"
                  /\ result' = Disconnected("Failed to start game")
                  /\ pr = <<>> /\ port = 0 /\ targetPort = 0 /\ calls = {}
                  /\ UNCHANGED <<dirs, containers, lastConnections>>]_vars

\* C12 witness: a session has just been rejected at the handshake while a
\* container runs and the map has an entry.
C12_Witness ==
    /\ result = Disconnected("Failed to start game")
    /\ pc = "Accept"
    /\ containers # {}
    /\ DOMAIN lastConnections # {}

\* C13 as stated: once Close has returned no session is accepted.
C13_NoSessionAfterClose ==
    [][cpc = "done" => ~(pc = "Accept" /\ pc' = "StartGame")]_vars

\* C14 as stated: once Close has returned the KillInactiveServers loop
\* eventually returns.
C14_ReaperReturns == (cpc = "done") ~> (rpc = "returned")

\* The positions of the Listen goroutine inside its accept loop.
LoopPositions ==
    {"Accept", "StartGame", "Route", "ServerPort", "StartServer", "StartServerPort",
     "Touch", "Transfer"}

\* C15: Listen never leaves its accept loop, whatever fails: after an error of
\* Accept or a rejected session it is back at Accept, where a waiting session
\* can be accepted for any address, is accepted, and is handled to its end.
C15_LoopSurvives ==
    /\ [](pc \in LoopPositions)
    /\ []((pc = "Accept" /\ waiting > 0) => \A a \in Addresses : ENABLED Accept(a))
    /\ (pc = "Accept" /\ waiting > 0) ~> (pc = "StartGame")
    /\ (pc # "Accept") ~> (pc = "Accept" /\ result # NoResult)

\* C15 witness: a session has been rejected because the driver failed, and
\* another session waits to be accepted.
C15_Witness ==
    /\ pc = "Accept"
    /\ result \in {Disconnected("Failed to get server port"),
                   Disconnected("Failed to start server")}
    /\ waiting > 0

\* C16 as stated: a PR deleted with 204 and not uploaded since has no
\* container and no directory.
C16_DeletedIsGone ==
    \A p \in deleted : ListContainers(p) = {} /\ p \notin dirs

\* C17 as stated: with an empty API key no POST /pullrequest or DELETE
\* /pullrequest/{pr} request is answered 401.
C17_EmptyKeyNoCheck ==
    [][(hpc = "serve" /\ apiKey = "" /\ req.route # OtherRoute) => status' # 401]_vars

\* The server answers or passes on a request that has no X-API-Key header or
\* one that differs from the API key, which is set.
BadKey == hpc = "serve" /\ hpc' # hpc /\ apiKey # "" /\ req.key # apiKey

C19_OneOutcome ==
    /\ [](pc \in LoopPositions \ {"Accept"} => result = NoResult)
    /\ [][(pc # "Accept" /\ pc' = "Accept")
            => \/ result'.kind = "transfer" /\ result'.port # 0
               \/ result'.kind = "disconnect" /\ result'.msg # ""]_vars
    /\ [][(pc = "Accept" /\ result # NoResult /\ result' # result)
            => result' = NoResult /\ pc' \in {"Accept", "StartGame"}]_vars

\* C19 witness: a session for a PR has ended with a transfer to a container's
\* port.
C19_Witness ==
    /\ pc = "Accept"
    /\ result.kind = "transfer"
    /\ result.port \in Ports

\* C20 as stated: between sessions, every container has an entry in the map.
C20_RunningIsTracked ==
    pc = "Accept" => \A c \in containers : c.pr \in DOMAIN lastConnections

\* C21 as stated: the handler does not reject a session through l.listener
\* when Close has set it to nil.
C21_NoNilListenerUse ==
    [][(HandlerStep /\ result'.kind = "disconnect") => listener # "nil"]_vars

\* C22 as stated: a POST /pullrequest that is not answered 201, for a PR that
\* had no directory when the request arrived, leaves the PR without one.
C22_FailedPostLeavesNoDirectory ==
    [][(/\ req.route = PostRoute
        /\ hpc # "idle"
        /\ hpc' = "idle"
        /\ status' # 201
        /\ ~hadDir)
         => req.pr \notin dirs']_vars

====
